---- MODULE Spec2Model ----
(***************************************************************************)
(* Card vault: the three request handlers of src/routes/data.rs            *)
(* (add_card, delete_card, retrieve_card) running concurrently over the    *)
(* three relations behind the storage traits of src/storage.rs             *)
(* (merchant, hash_table, locker).  Every awaited persistence call is one  *)
(* atomic step of a request; requests interleave between the calls.        *)
(***************************************************************************)
EXTENDS Integers, FiniteSets, Sequences, TLC

\* Number of requests that can be in flight at the same time.
NumReq == 2
\* Number of requests served in one behaviour.
MaxOps == 4

Req == 1..NumReq

\* state.config.secrets.tenant and state.config.secrets.master_key
Tenant == "t1"
MasterKey == <<"master", 0>>

\* No key yet.
NoKey == <<"none", 0>>

\* Request inputs.
Merchants == {"m1", "m2"}
Customers == {"c1", "c2"}
Payloads == {"p1", "p2"}

VARIABLES
    merchant,    \* merchant table: rows [tenant_id, merchant_id, enc_key]
    hash_table,  \* hash table: rows [hash_id, data_hash]
    locker,      \* locker table: rows [locker_id, tenant_id, merchant_id, customer_id, hash_id, enc_data]
    req,         \* request slot -> the request in flight there and its position
    ops,         \* requests started so far
    issued,      \* history: successful store responses [merchant_id, customer_id, data, card_reference]
    deleted      \* history: executed delete_from_locker calls <<merchant_id, customer_id, card_reference>>

vars == <<merchant, hash_table, locker, req, ops, issued, deleted>>

db == <<merchant, hash_table, locker>>

----------------------------------------------------------------------------
(* crypto: GcmAes256 and Sha512 *)

\* Authenticated encryption: the ciphertext opens only under the key that made it.
GcmEncrypt(key, plain) == [key |-> key, plain |-> plain]

GcmDecrypt(key, ct) ==
    IF ct.key = key THEN [ok |-> TRUE, plain |-> ct.plain] ELSE [ok |-> FALSE]

\* serde_json::to_vec of the request's data: the payload's canonical bytes.
ToVec(data) == <<"json", data>>

\* Sha512: a digest determined by the bytes, distinct bytes giving distinct digests.
Sha512Encode(bytes) == [sha512 |-> bytes]

----------------------------------------------------------------------------
(* responses *)

NoResp == [status |-> "none", card_reference |-> 0, data |-> "none",
           context |-> "none", entity |-> "none", cause |-> "none"]

StoreCardResponse(card_reference) ==
    [NoResp EXCEPT !.status = "Ok", !.card_reference = card_reference]

RetrieveCardResponse(data) == [NoResp EXCEPT !.status = "Ok", !.data = data]

DeleteCardResponse == [NoResp EXCEPT !.status = "Ok"]

\* change_context(ApiError::<context>(<entity>)) over the storage error <cause>
ApiError(context, entity, cause) ==
    [NoResp EXCEPT !.status = "Err", !.context = context, !.entity = entity,
                   !.cause = cause]

----------------------------------------------------------------------------
(* storage: MerchantInterface *)

MerchantRows(merchant_id, tenant_id) ==
    {m \in merchant : m.merchant_id = merchant_id /\ m.tenant_id = tenant_id}

FindByMerchantId(merchant_id, tenant_id, key) ==
    LET rows == MerchantRows(merchant_id, tenant_id) IN
    IF rows = {} THEN [ok |-> FALSE, err |-> "NotFound"]
    ELSE LET row == CHOOSE m \in rows : TRUE
             dec == GcmDecrypt(key, row.enc_key)
         IN  IF dec.ok THEN [ok |-> TRUE, enc_key |-> dec.plain]
             ELSE [ok |-> FALSE, err |-> "DecryptionError"]

\* A mutant: the merchant table without its uniqueness constraint.
InsertMerchant_NoConstraint(new, key) ==
    [conflict |-> FALSE,
     rows |-> merchant \cup {[tenant_id |-> new.tenant_id,
                              merchant_id |-> new.merchant_id,
                              enc_key |-> GcmEncrypt(key, new.enc_key)]}]

\* insert_merchant: the dek is stored encrypted under the master key; the
\* uniqueness of (tenant_id, merchant_id) turns a second insert into a conflict.
InsertMerchant(new, key) ==
    IF MerchantRows(new.merchant_id, new.tenant_id) # {}
    THEN [conflict |-> TRUE, rows |-> merchant]
    ELSE [conflict |-> FALSE,
          rows |-> merchant \cup {[tenant_id |-> new.tenant_id,
                                   merchant_id |-> new.merchant_id,
                                   enc_key |-> GcmEncrypt(key, new.enc_key)]}]

----------------------------------------------------------------------------
(* storage: HashInterface *)

HashRows(data_hash) == {h \in hash_table : h.data_hash = data_hash}

FindByDataHash(data_hash) ==
    LET rows == HashRows(data_hash) IN
    IF rows = {} THEN [some |-> FALSE]
    ELSE [some |-> TRUE, hash_id |-> (CHOOSE h \in rows : TRUE).hash_id]

\* A mutant: the hash table without its uniqueness constraint.
InsertHash_NoConstraint(data_hash, new_id) ==
    [conflict |-> FALSE,
     rows |-> hash_table \cup {[hash_id |-> new_id, data_hash |-> data_hash]}]

\* insert_hash: a new entry under a fresh hash_id; the uniqueness of data_hash
\* turns a second insert into a conflict.
InsertHash(data_hash, new_id) ==
    IF HashRows(data_hash) # {}
    THEN [conflict |-> TRUE, rows |-> hash_table]
    ELSE [conflict |-> FALSE,
          rows |-> hash_table \cup {[hash_id |-> new_id, data_hash |-> data_hash]}]

----------------------------------------------------------------------------
(* storage: LockerInterface *)

\* Decrypt a locker row with the dek.
LockerDecrypt(row, key) ==
    LET dec == GcmDecrypt(key, row.enc_data) IN
    IF dec.ok THEN [ok |-> TRUE, locker_id |-> row.locker_id, data |-> dec.plain]
    ELSE [ok |-> FALSE, err |-> "DecryptionError"]

LockerRowsById(locker_id, tenant_id, merchant_id, customer_id) ==
    {l \in locker : /\ l.locker_id = locker_id
                    /\ l.tenant_id = tenant_id
                    /\ l.merchant_id = merchant_id
                    /\ l.customer_id = customer_id}

LockerRowsByHash(hash_id, tenant_id, merchant_id, customer_id) ==
    {l \in locker : /\ l.hash_id = hash_id
                    /\ l.tenant_id = tenant_id
                    /\ l.merchant_id = merchant_id
                    /\ l.customer_id = customer_id}

\* A mutant: the lookup by locker id alone, without the merchant and customer scope.
FindByLockerIdMerchantIdCustomerId_Unscoped(locker_id, tenant_id, merchant_id, customer_id, key) ==
    LET rows == {l \in locker : l.locker_id = locker_id} IN
    IF rows = {} THEN [ok |-> FALSE, err |-> "NotFound"]
    ELSE LockerDecrypt(CHOOSE l \in rows : TRUE, key)

FindByLockerIdMerchantIdCustomerId(locker_id, tenant_id, merchant_id, customer_id, key) ==
    LET rows == LockerRowsById(locker_id, tenant_id, merchant_id, customer_id) IN
    IF rows = {} THEN [ok |-> FALSE, err |-> "NotFound"]
    ELSE LockerDecrypt(CHOOSE l \in rows : TRUE, key)

\* A mutant: the lookup by group without the customer.
FindByHashIdMerchantIdCustomerId_AnyCustomer(hash_id, tenant_id, merchant_id, customer_id, key) ==
    LET rows == {l \in locker : /\ l.hash_id = hash_id
                                /\ l.tenant_id = tenant_id
                                /\ l.merchant_id = merchant_id} IN
    IF rows = {} THEN [ok |-> TRUE, some |-> FALSE]
    ELSE LET dec == LockerDecrypt(CHOOSE l \in rows : TRUE, key) IN
         IF dec.ok THEN [ok |-> TRUE, some |-> TRUE, locker_id |-> dec.locker_id]
         ELSE dec

FindByHashIdMerchantIdCustomerId(hash_id, tenant_id, merchant_id, customer_id, key) ==
    LET rows == LockerRowsByHash(hash_id, tenant_id, merchant_id, customer_id) IN
    IF rows = {} THEN [ok |-> TRUE, some |-> FALSE]
    ELSE LET dec == LockerDecrypt(CHOOSE l \in rows : TRUE, key) IN
         IF dec.ok THEN [ok |-> TRUE, some |-> TRUE, locker_id |-> dec.locker_id]
         ELSE dec

LockerRow(new, key) ==
    [locker_id |-> new.locker_id, tenant_id |-> new.tenant_id,
     merchant_id |-> new.merchant_id, customer_id |-> new.customer_id,
     hash_id |-> new.hash_id, enc_data |-> GcmEncrypt(key, new.data)]

\* A mutant: the locker table without its uniqueness constraint.
InsertOrGetFromLocker_NoConstraint(new, key) ==
    [ok |-> TRUE, conflict |-> FALSE, locker_id |-> new.locker_id,
     rows |-> locker \cup {LockerRow(new, key)}]

\* insert_or_get_from_locker: insert, or return the row that already holds
\* (tenant_id, merchant_id, customer_id, hash_id).
InsertOrGetFromLocker(new, key) ==
    LET rows == LockerRowsByHash(new.hash_id, new.tenant_id, new.merchant_id,
                                 new.customer_id) IN
    IF rows = {}
    THEN [ok |-> TRUE, conflict |-> FALSE, locker_id |-> new.locker_id,
          rows |-> locker \cup {LockerRow(new, key)}]
    ELSE LET dec == LockerDecrypt(CHOOSE l \in rows : TRUE, key) IN
         IF dec.ok
         THEN [ok |-> TRUE, conflict |-> TRUE, locker_id |-> dec.locker_id,
               rows |-> locker]
         ELSE [ok |-> FALSE, err |-> dec.err, conflict |-> TRUE, rows |-> locker]

\* A mutant: the delete by locker id alone, without the merchant and customer scope.
DeleteFromLocker_Unscoped(locker_id, tenant_id, merchant_id, customer_id) ==
    LET rows == {l \in locker : l.locker_id = locker_id} IN
    [count |-> Cardinality(rows), rows |-> locker \ rows]

\* delete_from_locker: the rows removed, and what is left.
DeleteFromLocker(locker_id, tenant_id, merchant_id, customer_id) ==
    LET rows == LockerRowsById(locker_id, tenant_id, merchant_id, customer_id) IN
    [count |-> Cardinality(rows), rows |-> locker \ rows]

----------------------------------------------------------------------------
(* requests *)

Idle ==
    [op |-> "idle", pc |-> "idle", n |-> 0,
     merchant_id |-> "none", merchant_customer_id |-> "none",
     data |-> "none", card_reference |-> 0,
     dek |-> NoKey, hash_id |-> 0, conflicts |-> {}, resp |-> NoResp]

\* The handler returns: its locals are dropped, the response stays.
Done(rq, resp) == [rq EXCEPT !.pc = "done", !.resp = resp, !.dek = NoKey, !.hash_id = 0]

\* A request moved by this step.
Stepped(r) == req'[r] # req[r]

\* A request that returns in this step.
Returns(r) == req[r].pc # "done" /\ req'[r].pc = "done"

\* card_references a caller can present: those handed out by a store, and one
\* that no store ever returned.
KnownRefs == {0} \cup {e.card_reference : e \in issued}

\* Merchants, customers and payloads are named in the order of their first use:
\* the first request names m1 and c1, the first store p1.
FirstScope(m, c) == ops = 0 => (m = "m1" /\ c = "c1")

FirstPayload(p) ==
    (hash_table = {} /\ \A q \in Req : req[q].op # "add_card") => p = "p1"

\* Requests fill the lowest free slot.
FreeSlot(r) == req[r].op = "idle" /\ \A q \in Req : q < r => req[q].op # "idle"

----------------------------------------------------------------------------
(* add_card *)

StartAddCard(r) ==
    /\ FreeSlot(r)
    /\ ops < MaxOps
    /\ \E m \in Merchants, c \in Customers, p \in Payloads :
         /\ FirstScope(m, c)
         /\ FirstPayload(p)
         /\ req' = [req EXCEPT ![r] = [Idle EXCEPT !.op = "add_card", !.pc = "find_merchant",
                                                !.n = ops + 1, !.merchant_id = m,
                                                !.merchant_customer_id = c, !.data = p]]
    /\ ops' = ops + 1
    /\ UNCHANGED <<db, issued, deleted>>

\* A mutant: the cipher for the payload built from the key this request
\* generated, not from the enc_key of the merchant record that was returned.
AddCard_Merchant_OwnDek(rq, res) ==
    IF res.ok THEN [rq EXCEPT !.pc = "find_by_data_hash", !.dek = <<"dek", rq.n>>]
    ELSE Done(rq, ApiError("RetrieveDataFailed", "merchant", res.err))

\* The handler after find_or_create_by_merchant_id: the dek of the merchant, or
\* the error under RetrieveDataFailed("merchant").
AddCard_Merchant(rq, res) ==
    IF res.ok THEN [rq EXCEPT !.pc = "find_by_data_hash", !.dek = res.enc_key]
    ELSE Done(rq, ApiError("RetrieveDataFailed", "merchant", res.err))

\* find_or_create_by_merchant_id, first the lookup
FindOrCreateByMerchantId_Find(r) ==
    /\ req[r].op = "add_card" /\ req[r].pc = "find_merchant"
    /\ LET rq == req[r]
           res == FindByMerchantId(rq.merchant_id, Tenant, MasterKey)
       IN  req' = [req EXCEPT ![r] =
                     IF ~res.ok /\ res.err = "NotFound"
                     THEN [rq EXCEPT !.pc = "insert_merchant"]
                     ELSE AddCard_Merchant(rq, res)]
    /\ UNCHANGED <<db, ops, issued, deleted>>

\* find_or_create_by_merchant_id, then the insert of a merchant with a new dek
FindOrCreateByMerchantId_Insert(r) ==
    /\ req[r].op = "add_card" /\ req[r].pc = "insert_merchant"
    /\ LET rq == req[r]
           new == [tenant_id |-> Tenant, merchant_id |-> rq.merchant_id, enc_key |-> <<"dek", rq.n>>]
           res == InsertMerchant(new, MasterKey)
       IN  /\ merchant' = res.rows
           /\ req' = [req EXCEPT ![r] =
                        IF res.conflict
                        THEN [rq EXCEPT !.pc = "reread_merchant",
                                        !.conflicts = @ \cup {"merchant"}]
                        ELSE AddCard_Merchant(rq, [ok |-> TRUE, enc_key |-> new.enc_key])]
    /\ UNCHANGED <<hash_table, locker, ops, issued, deleted>>

\* find_or_create_by_merchant_id, on a conflict the winner's record is read
FindOrCreateByMerchantId_Reread(r) ==
    /\ req[r].op = "add_card" /\ req[r].pc = "reread_merchant"
    /\ LET rq == req[r]
           res == FindByMerchantId(rq.merchant_id, Tenant, MasterKey)
       IN  req' = [req EXCEPT ![r] = AddCard_Merchant(rq, res)]
    /\ UNCHANGED <<db, ops, issued, deleted>>

\* A mutant: the fingerprint taken over the whole request instead of its data.
HashData_WholeRequest(rq) ==
    Sha512Encode(ToVec(<<rq.merchant_id, rq.merchant_customer_id, rq.data>>))

\* A mutant: the fingerprint taken over bytes that differ from request to
\* request (the ciphertext with its random nonce, instead of the plaintext).
HashData_PerRequest(rq) == Sha512Encode(ToVec(<<rq.n, rq.data>>))

\* hash_data: Sha512 over serde_json::to_vec(&request.data)
HashData(rq) == Sha512Encode(ToVec(rq.data))

AddCard_FindByDataHash(r) ==
    /\ req[r].op = "add_card" /\ req[r].pc = "find_by_data_hash"
    /\ LET rq == req[r]
           optional_hash_table == FindByDataHash(HashData(rq))
       IN  req' = [req EXCEPT ![r] =
                     IF optional_hash_table.some
                     THEN [rq EXCEPT !.pc = "find_by_hash_id",
                                     !.hash_id = optional_hash_table.hash_id]
                     ELSE [rq EXCEPT !.pc = "insert_hash"]]
    /\ UNCHANGED <<db, ops, issued, deleted>>

\* The store's entry in the history of responses.
Issue(rq, card_reference) ==
    [merchant_id |-> rq.merchant_id, customer_id |-> rq.merchant_customer_id,
     data |-> rq.data, card_reference |-> card_reference]

\* Some(hash_table): the customer's record of this content, if there is one
AddCard_FindByHashId(r) ==
    /\ req[r].op = "add_card" /\ req[r].pc = "find_by_hash_id"
    /\ LET rq == req[r]
           stored_data == FindByHashIdMerchantIdCustomerId(
                              rq.hash_id, Tenant, rq.merchant_id,
                              rq.merchant_customer_id, rq.dek)
       IN  IF ~stored_data.ok
           THEN /\ req' = [req EXCEPT ![r] =
                             Done(rq, ApiError("DatabaseRetrieveFailed", "locker",
                                               stored_data.err))]
                /\ UNCHANGED issued
           ELSE IF stored_data.some
           THEN /\ req' = [req EXCEPT ![r] =
                             Done(rq, StoreCardResponse(stored_data.locker_id))]
                /\ issued' = issued \cup {Issue(rq, stored_data.locker_id)}
           ELSE /\ req' = [req EXCEPT ![r] = [rq EXCEPT !.pc = "insert_or_get"]]
                /\ UNCHANGED issued
    /\ UNCHANGED <<db, ops, deleted>>

\* A mutant: the handler goes on with the hash_id it generated, not with the
\* one of the entry insert_hash returned.
AddCard_Hash_OwnId(rq, res) ==
    IF res.ok THEN [rq EXCEPT !.pc = "insert_or_get", !.hash_id = rq.n]
    ELSE Done(rq, ApiError("DatabaseInsertFailed", "hash_table", res.err))

\* A mutant: after insert_hash the handler looks the fingerprint up again.
AddCard_Hash_Retry(rq, res) ==
    IF res.ok THEN [rq EXCEPT !.pc = "find_by_data_hash"]
    ELSE Done(rq, ApiError("DatabaseInsertFailed", "hash_table", res.err))

\* The handler after insert_hash: the hash_id of the entry, or the error under
\* DatabaseInsertFailed("hash_table").
AddCard_Hash(rq, res) ==
    IF res.ok THEN [rq EXCEPT !.pc = "insert_or_get", !.hash_id = res.hash_id]
    ELSE Done(rq, ApiError("DatabaseInsertFailed", "hash_table", res.err))

\* None: insert_hash, the insert of an entry under a new hash_id
InsertHash_Insert(r) ==
    /\ req[r].op = "add_card" /\ req[r].pc = "insert_hash"
    /\ LET rq == req[r]
           res == InsertHash(HashData(rq), rq.n)
       IN  /\ hash_table' = res.rows
           /\ req' = [req EXCEPT ![r] =
                        IF res.conflict
                        THEN [rq EXCEPT !.pc = "reread_hash",
                                        !.conflicts = @ \cup {"hash_table"}]
                        ELSE AddCard_Hash(rq, [ok |-> TRUE, hash_id |-> rq.n])]
    /\ UNCHANGED <<merchant, locker, ops, issued, deleted>>

\* insert_hash, on a conflict the winner's entry is read
InsertHash_Reread(r) ==
    /\ req[r].op = "add_card" /\ req[r].pc = "reread_hash"
    /\ LET rq == req[r]
           found == FindByDataHash(HashData(rq))
       IN  req' = [req EXCEPT ![r] =
                     AddCard_Hash(rq, IF found.some
                                      THEN [ok |-> TRUE, hash_id |-> found.hash_id]
                                      ELSE [ok |-> FALSE, err |-> "NotFound"])]
    /\ UNCHANGED <<db, ops, issued, deleted>>

\* (request, tenant, hash_id).try_into(): the new locker row, under a new locker id
LockerNew(rq, tenant_id, hash_id) ==
    [locker_id |-> rq.n, tenant_id |-> tenant_id, merchant_id |-> rq.merchant_id,
     customer_id |-> rq.merchant_customer_id, hash_id |-> hash_id, data |-> rq.data]

\* insert_or_get_from_locker, in either arm of the match
AddCard_InsertOrGet(r) ==
    /\ req[r].op = "add_card" /\ req[r].pc = "insert_or_get"
    /\ LET rq == req[r]
           output == InsertOrGetFromLocker(LockerNew(rq, Tenant, rq.hash_id), rq.dek)
           rq2 == IF output.conflict
                  THEN [rq EXCEPT !.conflicts = @ \cup {"locker"}] ELSE rq
       IN  /\ locker' = output.rows
           /\ IF output.ok
              THEN /\ req' = [req EXCEPT ![r] =
                                Done(rq2, StoreCardResponse(output.locker_id))]
                   /\ issued' = issued \cup {Issue(rq, output.locker_id)}
              ELSE /\ req' = [req EXCEPT ![r] =
                                Done(rq2, ApiError("DatabaseInsertFailed", "locker",
                                                   output.err))]
                   /\ UNCHANGED issued
    /\ UNCHANGED <<merchant, hash_table, ops, deleted>>

----------------------------------------------------------------------------
(* delete_card *)

StartDeleteCard(r) ==
    /\ FreeSlot(r)
    /\ ops < MaxOps
    /\ \E m \in Merchants, c \in Customers, ref \in KnownRefs :
         /\ FirstScope(m, c)
         /\ req' = [req EXCEPT ![r] = [Idle EXCEPT !.op = "delete_card", !.pc = "find_merchant",
                                                !.n = ops + 1, !.merchant_id = m,
                                                !.merchant_customer_id = c,
                                                !.card_reference = ref]]
    /\ ops' = ops + 1
    /\ UNCHANGED <<db, issued, deleted>>

\* A mutant: the result of the merchant lookup is dropped, error or not.
DeleteCard_FindMerchant_Ignored(r) ==
    /\ req[r].op = "delete_card" /\ req[r].pc = "find_merchant"
    /\ req' = [req EXCEPT ![r] = [req[r] EXCEPT !.pc = "delete_from_locker"]]
    /\ UNCHANGED <<db, ops, issued, deleted>>

DeleteCard_FindMerchant(r) ==
    /\ req[r].op = "delete_card" /\ req[r].pc = "find_merchant"
    /\ LET rq == req[r]
           res == FindByMerchantId(rq.merchant_id, Tenant, MasterKey)
       IN  req' = [req EXCEPT ![r] =
                     IF res.ok THEN [rq EXCEPT !.pc = "delete_from_locker"]
                     ELSE Done(rq, ApiError("DatabaseRetrieveFailed", "merchant", res.err))]
    /\ UNCHANGED <<db, ops, issued, deleted>>

\* A mutant: the customer and the merchant passed in each other's place.
DeleteCard_Scope_Swapped(rq) ==
    [locker_id |-> rq.card_reference, tenant_id |-> Tenant,
     merchant_id |-> rq.merchant_customer_id, customer_id |-> rq.merchant_id]

\* The arguments of delete_from_locker.
DeleteCard_Scope(rq) ==
    [locker_id |-> rq.card_reference, tenant_id |-> Tenant,
     merchant_id |-> rq.merchant_id, customer_id |-> rq.merchant_customer_id]

\* A mutant: a delete that removed nothing answered as an error.
DeleteCard_Status_ZeroIsError(delete_status) ==
    IF delete_status = 0 THEN ApiError("DatabaseDeleteFailed", "locker", "NotFound")
    ELSE DeleteCardResponse

\* The count of deleted rows is dropped: the status is Ok.
DeleteCard_Status(delete_status) == DeleteCardResponse

\* A mutant: the delete also removes the dedup entries no vault record is left of.
DeleteCard_DeleteFromLocker_Gc(r) ==
    /\ req[r].op = "delete_card" /\ req[r].pc = "delete_from_locker"
    /\ LET rq == req[r]
           a == DeleteCard_Scope(rq)
           res == DeleteFromLocker(a.locker_id, a.tenant_id, a.merchant_id, a.customer_id)
       IN  /\ locker' = res.rows
           /\ hash_table' = {h \in hash_table : \E l \in res.rows : l.hash_id = h.hash_id}
           /\ req' = [req EXCEPT ![r] = Done(rq, DeleteCard_Status(res.count))]
           /\ deleted' = deleted \cup
                  {<<rq.merchant_id, rq.merchant_customer_id, rq.card_reference>>}
    /\ UNCHANGED <<merchant, ops, issued>>

DeleteCard_DeleteFromLocker(r) ==
    /\ req[r].op = "delete_card" /\ req[r].pc = "delete_from_locker"
    /\ LET rq == req[r]
           a == DeleteCard_Scope(rq)
           res == DeleteFromLocker(a.locker_id, a.tenant_id, a.merchant_id, a.customer_id)
       IN  /\ locker' = res.rows
           /\ req' = [req EXCEPT ![r] = Done(rq, DeleteCard_Status(res.count))]
           /\ deleted' = deleted \cup
                  {<<rq.merchant_id, rq.merchant_customer_id, rq.card_reference>>}
    /\ UNCHANGED <<merchant, hash_table, ops, issued>>

----------------------------------------------------------------------------
(* retrieve_card *)

StartRetrieveCard(r) ==
    /\ FreeSlot(r)
    /\ ops < MaxOps
    /\ \E m \in Merchants, c \in Customers, ref \in KnownRefs :
         /\ FirstScope(m, c)
         /\ req' = [req EXCEPT ![r] = [Idle EXCEPT !.op = "retrieve_card", !.pc = "find_merchant",
                                                !.n = ops + 1, !.merchant_id = m,
                                                !.merchant_customer_id = c,
                                                !.card_reference = ref]]
    /\ ops' = ops + 1
    /\ UNCHANGED <<db, issued, deleted>>

RetrieveCard_FindMerchant(r) ==
    /\ req[r].op = "retrieve_card" /\ req[r].pc = "find_merchant"
    /\ LET rq == req[r]
           res == FindByMerchantId(rq.merchant_id, Tenant, MasterKey)
       IN  req' = [req EXCEPT ![r] =
                     IF res.ok THEN [rq EXCEPT !.pc = "find_by_locker_id", !.dek = res.enc_key]
                     ELSE Done(rq, ApiError("DatabaseDeleteFailed", "locker", res.err))]
    /\ UNCHANGED <<db, ops, issued, deleted>>

\* A mutant: the customer and the merchant passed in each other's place.
RetrieveCard_Scope_Swapped(rq) ==
    [locker_id |-> rq.card_reference, tenant_id |-> Tenant,
     merchant_id |-> rq.merchant_customer_id, customer_id |-> rq.merchant_id]

\* The arguments of find_by_locker_id_merchant_id_customer_id.
RetrieveCard_Scope(rq) ==
    [locker_id |-> rq.card_reference, tenant_id |-> Tenant,
     merchant_id |-> rq.merchant_id, customer_id |-> rq.merchant_customer_id]

RetrieveCard_FindByLockerId(r) ==
    /\ req[r].op = "retrieve_card" /\ req[r].pc = "find_by_locker_id"
    /\ LET rq == req[r]
           a == RetrieveCard_Scope(rq)
           card == FindByLockerIdMerchantIdCustomerId(
                       a.locker_id, a.tenant_id, a.merchant_id, a.customer_id, rq.dek)
       IN  req' = [req EXCEPT ![r] =
                     IF card.ok THEN Done(rq, RetrieveCardResponse(card.data))
                     ELSE Done(rq, ApiError("DatabaseDeleteFailed", "locker", card.err))]
    /\ UNCHANGED <<db, ops, issued, deleted>>

----------------------------------------------------------------------------
(* the service *)

\* The response has been sent: the slot serves the next request.
Respond(r) ==
    /\ req[r].pc = "done"
    /\ req' = [req EXCEPT ![r] = Idle]
    /\ UNCHANGED <<db, ops, issued, deleted>>

Init ==
    /\ merchant = {}
    /\ hash_table = {}
    /\ locker = {}
    /\ req = [r \in Req |-> Idle]
    /\ ops = 0
    /\ issued = {}
    /\ deleted = {}

Next ==
    \E r \in Req :
        \/ StartAddCard(r)
        \/ FindOrCreateByMerchantId_Find(r)
        \/ FindOrCreateByMerchantId_Insert(r)
        \/ FindOrCreateByMerchantId_Reread(r)
        \/ AddCard_FindByDataHash(r)
        \/ AddCard_FindByHashId(r)
        \/ InsertHash_Insert(r)
        \/ InsertHash_Reread(r)
        \/ AddCard_InsertOrGet(r)
        \/ StartDeleteCard(r)
        \/ DeleteCard_FindMerchant(r)
        \/ DeleteCard_DeleteFromLocker(r)
        \/ StartRetrieveCard(r)
        \/ RetrieveCard_FindMerchant(r)
        \/ RetrieveCard_FindByLockerId(r)
        \/ Respond(r)

Spec == Init /\ [][Next]_vars

----------------------------------------------------------------------------
(* what the claims speak of *)

\* The response is an error whose cause is a lookup miss.
IsNotFound(resp) == resp.status = "Err" /\ resp.cause = "NotFound"

\* The request has returned.
IsDone(r, op) == req[r].op = op /\ req[r].pc = "done"

\* The vault records that hold payload p for customer c of merchant m.
RecordsOf(m, c, p) ==
    {l \in locker : /\ l.tenant_id = Tenant
                    /\ l.merchant_id = m
                    /\ l.customer_id = c
                    /\ l.enc_data.plain = p}

\* delete_from_locker has run on this card_reference, under whatever scope.
DeleteRan(card_reference) == \E d \in deleted : d[3] = card_reference

\* The store response e was given to the scope and the reference the request names.
Owns(e, rq) ==
    /\ e.card_reference = rq.card_reference
    /\ e.merchant_id = rq.merchant_id
    /\ e.customer_id = rq.merchant_customer_id

\* The store response e answers a store of the request's merchant, customer and payload.
SameStore(e, rq) ==
    /\ e.merchant_id = rq.merchant_id
    /\ e.customer_id = rq.merchant_customer_id
    /\ e.data = rq.data

\* The positions of add_card after find_or_create_by_merchant_id has returned.
PastMerchant == {"find_by_data_hash", "find_by_hash_id", "insert_hash", "reread_hash",
                 "insert_or_get"}

----------------------------------------------------------------------------

\* C1: in every reachable state at most one vault record exists per
\* (tenant_id, merchant_id, customer_id, hash_id); and the stores of one payload
\* by one customer of one merchant, however they interleave, leave exactly one
\* vault record of it as long as the returned reference has not been deleted.
C1_OneVaultRecordPerGroup ==
    /\ \A l1, l2 \in locker :
         ( /\ l1.tenant_id = l2.tenant_id
           /\ l1.merchant_id = l2.merchant_id
           /\ l1.customer_id = l2.customer_id
           /\ l1.hash_id = l2.hash_id ) => l1 = l2
    /\ \A e \in issued :
         ~DeleteRan(e.card_reference)
            => Cardinality(RecordsOf(e.merchant_id, e.customer_id, e.data)) = 1

\* Two stores of the same content by the same customer have both returned, one
\* of them after losing the race for the vault record.
C1_Witness ==
    \E r1, r2 \in Req :
        /\ r1 # r2
        /\ IsDone(r1, "add_card") /\ IsDone(r2, "add_card")
        /\ SameStore(Issue(req[r1], 0), req[r2])
        /\ "locker" \in req[r2].conflicts
        /\ Cardinality(RecordsOf(req[r1].merchant_id, req[r1].merchant_customer_id,
                                 req[r1].data)) = 1

\* C2: in every reachable state there is at most one merchant record per
\* (tenant_id, merchant_id), every add_card that has got its merchant holds the
\* dek of that one record, and no add_card fails on the merchant: the loser of
\* a creation race reads the winner's record.
C2_OneMerchantOneDek ==
    /\ \A m1, m2 \in merchant :
         (m1.tenant_id = m2.tenant_id /\ m1.merchant_id = m2.merchant_id) => m1 = m2
    /\ \A r \in Req :
         (req[r].op = "add_card" /\ req[r].pc \in PastMerchant)
            => \E m \in merchant :
                  /\ m.tenant_id = Tenant
                  /\ m.merchant_id = req[r].merchant_id
                  /\ m.enc_key = GcmEncrypt(MasterKey, req[r].dek)
    /\ \A r \in Req :
         IsDone(r, "add_card") => req[r].resp.entity # "merchant"

\* An add_card lost the race for its merchant's record and went on with a dek.
C2_Witness ==
    \E r \in Req :
        /\ req[r].op = "add_card"
        /\ req[r].pc \in PastMerchant
        /\ "merchant" \in req[r].conflicts
        /\ req[r].dek # <<"dek", req[r].n>>

\* C3: in every reachable state there is at most one dedup entry per
\* fingerprint, every add_card that has got its hash_id holds the one of its
\* payload's fingerprint, and vault records of the same payload carry the same
\* hash_id, for whatever merchant and customer.
C3_OneGroupPerFingerprint ==
    /\ \A h1, h2 \in hash_table : h1.data_hash = h2.data_hash => h1 = h2
    /\ \A r \in Req :
         (req[r].op = "add_card" /\ req[r].pc \in {"find_by_hash_id", "insert_or_get"})
            => \E h \in hash_table :
                  /\ h.hash_id = req[r].hash_id
                  /\ h.data_hash = Sha512Encode(ToVec(req[r].data))
    /\ \A l1, l2 \in locker :
         l1.enc_data.plain = l2.enc_data.plain => l1.hash_id = l2.hash_id

\* A store lost the race for the dedup entry, and two merchants hold vault
\* records of the one group.
C3_Witness ==
    /\ \E r \in Req : IsDone(r, "add_card") /\ "hash_table" \in req[r].conflicts
    /\ \E l1, l2 \in locker :
         l1.merchant_id # l2.merchant_id /\ l1.hash_id = l2.hash_id

\* C4: once a store of payload P for a customer has returned a card_reference,
\* and while that vault record is there, no step of another store of P for the
\* same customer changes the merchant, hash or locker table, and that store
\* returns the same card_reference.
C4_SecondStoreChangesNothing ==
    [][\A r \in Req : \A e \in issued :
         ( /\ req[r].op = "add_card"
           /\ Stepped(r)
           /\ SameStore(e, req[r])
           /\ \E l \in locker : l.locker_id = e.card_reference )
         => /\ UNCHANGED db
            /\ Returns(r) => req'[r].resp = StoreCardResponse(e.card_reference)]_vars

\* A store has found the record an earlier store made, and returned its reference.
C4_Witness ==
    \E r \in Req :
        /\ IsDone(r, "add_card")
        /\ req[r].conflicts = {}
        /\ req[r].resp.status = "Ok"
        /\ req[r].resp.card_reference # req[r].n
        /\ \E l \in locker : l.locker_id = req[r].resp.card_reference

\* C5: a retrieve, by the merchant and customer of a store of P, of the
\* card_reference that store returned answers with exactly P, unless a delete
\* has run on that reference.
C5_RoundTrip ==
    \A r \in Req : \A e \in issued :
        ( /\ IsDone(r, "retrieve_card")
          /\ Owns(e, req[r])
          /\ ~DeleteRan(e.card_reference) )
        => req[r].resp = RetrieveCardResponse(e.data)

\* A retrieve has answered with the payload of a store.
C5_Witness ==
    \E r \in Req : \E e \in issued :
        /\ IsDone(r, "retrieve_card")
        /\ Owns(e, req[r])
        /\ ~DeleteRan(e.card_reference)
        /\ req[r].resp.data = e.data

\* C6: a retrieve of a card_reference of merchant M1 by another merchant M2
\* fails on a lookup miss: it never answers with a payload, nor fails on a
\* decryption.
C6_MerchantIsolation ==
    \A r \in Req : \A e \in issued :
        ( /\ IsDone(r, "retrieve_card")
          /\ e.card_reference = req[r].card_reference
          /\ e.merchant_id # req[r].merchant_id )
        => IsNotFound(req[r].resp)

\* A merchant with a record of its own, made before, has asked for another
\* merchant's card_reference while that vault record was there.
C6_Witness ==
    \E r \in Req : \E e \in issued :
        /\ IsDone(r, "retrieve_card")
        /\ e.card_reference = req[r].card_reference
        /\ e.merchant_id # req[r].merchant_id
        /\ ~DeleteRan(e.card_reference)
        /\ \E m \in merchant :
             /\ m.merchant_id = req[r].merchant_id
             /\ m.enc_key.plain[2] < req[r].n

\* C7: the stores of one payload for two customers of one merchant return two
\* different card_references, whose vault records carry the same hash_id; a
\* retrieve of either reference by the other customer fails on a lookup miss,
\* and by its own customer answers with the payload unless a delete has run on it.
C7_CustomerIsolation ==
    /\ \A e1, e2 \in issued :
         ( /\ e1.merchant_id = e2.merchant_id
           /\ e1.data = e2.data
           /\ e1.customer_id # e2.customer_id )
         => /\ e1.card_reference # e2.card_reference
            /\ \A l1, l2 \in locker :
                 ( /\ l1.locker_id = e1.card_reference
                   /\ l2.locker_id = e2.card_reference ) => l1.hash_id = l2.hash_id
    /\ \A r \in Req : \A e \in issued :
         ( /\ IsDone(r, "retrieve_card")
           /\ e.card_reference = req[r].card_reference
           /\ e.merchant_id = req[r].merchant_id )
         => IF e.customer_id # req[r].merchant_customer_id
            THEN IsNotFound(req[r].resp)
            ELSE DeleteRan(e.card_reference)
                    \/ req[r].resp = RetrieveCardResponse(e.data)

\* Two customers of a merchant hold vault records of the same payload, and one
\* has asked for the other's card_reference.
C7_Witness ==
    \E e1, e2 \in issued : \E r \in Req :
        /\ e1.merchant_id = e2.merchant_id
        /\ e1.data = e2.data
        /\ e1.customer_id # e2.customer_id
        /\ \E l1, l2 \in locker :
             l1.locker_id = e1.card_reference /\ l2.locker_id = e2.card_reference
        /\ IsDone(r, "retrieve_card")
        /\ req[r].card_reference = e1.card_reference
        /\ req[r].merchant_id = e1.merchant_id
        /\ req[r].merchant_customer_id = e2.customer_id

\* C8: every store succeeds, and the stores of one payload by one customer of
\* one merchant all return the same card_reference as long as no delete by that
\* customer has run on a returned reference: no conflict reaches a caller.
C8_ConcurrentStoresAgree ==
    /\ \A r \in Req : IsDone(r, "add_card") => req[r].resp.status = "Ok"
    /\ \A e1, e2 \in issued :
         ( /\ e1.merchant_id = e2.merchant_id
           /\ e1.customer_id = e2.customer_id
           /\ e1.data = e2.data
           /\ <<e1.merchant_id, e1.customer_id, e1.card_reference>> \notin deleted
           /\ <<e2.merchant_id, e2.customer_id, e2.card_reference>> \notin deleted )
         => e1.card_reference = e2.card_reference

\* Two concurrent stores of the same content by the same customer have both
\* returned, one after a conflict, with no delete at all.
C8_Witness ==
    \E r1, r2 \in Req :
        /\ r1 # r2
        /\ IsDone(r1, "add_card") /\ IsDone(r2, "add_card")
        /\ SameStore(Issue(req[r1], 0), req[r2])
        /\ req[r2].conflicts # {}
        /\ req[r1].resp = req[r2].resp
        /\ req[r1].resp.status = "Ok"
        /\ deleted = {}

\* C9: for a merchant that has a record, no step of a delete_card changes the
\* merchant or the hash table, the delete returns only from delete_from_locker
\* and with status Ok, and when no vault record matches its card_reference and
\* scope the locker table is unchanged too.
C9_IdempotentDelete ==
    [][\A r \in Req :
         ( /\ req[r].op = "delete_card"
           /\ Stepped(r)
           /\ req[r].pc # "done"
           /\ MerchantRows(req[r].merchant_id, Tenant) # {} )
         => /\ merchant' = merchant
            /\ hash_table' = hash_table
            /\ Returns(r) => req'[r].resp = DeleteCardResponse
            /\ LockerRowsById(req[r].card_reference, Tenant, req[r].merchant_id,
                              req[r].merchant_customer_id) = {} => locker' = locker]_vars

\* Two deletes of the same stored card_reference by its customer have both
\* returned Ok.
C9_Witness ==
    \E r1, r2 \in Req : \E e \in issued :
        /\ r1 # r2
        /\ IsDone(r1, "delete_card") /\ IsDone(r2, "delete_card")
        /\ Owns(e, req[r1]) /\ Owns(e, req[r2])
        /\ req[r1].resp = DeleteCardResponse
        /\ req[r2].resp = DeleteCardResponse

\* C10: once delete_from_locker has run for a delete_card of card_reference r by
\* a merchant and customer (the delete answers Ok), every retrieve of r by that
\* merchant and customer that returns afterwards fails on a lookup miss,
\* whatever was stored in between.
C10_DeletedStaysDeleted ==
    [][\A r \in Req :
         ( /\ req[r].op = "retrieve_card"
           /\ Returns(r)
           /\ <<req[r].merchant_id, req[r].merchant_customer_id,
                req[r].card_reference>> \in deleted )
         => IsNotFound(req'[r].resp)]_vars

\* A card_reference was stored, deleted by its customer, its payload stored
\* again for that customer, and the old reference asked for.
C10_Witness ==
    \E r \in Req : \E e \in issued :
        /\ IsDone(r, "retrieve_card")
        /\ Owns(e, req[r])
        /\ <<e.merchant_id, e.customer_id, e.card_reference>> \in deleted
        /\ IsNotFound(req[r].resp)
        /\ RecordsOf(e.merchant_id, e.customer_id, e.data) # {}

----------------------------------------------------------------------------
(* failures: the connection pool, and callers that go away *)

\* The ApiError the handler puts over an error of the persistence call it is at.
ErrorContext(op, pc) ==
    IF op = "add_card"
    THEN IF pc \in {"find_merchant", "insert_merchant", "reread_merchant"}
         THEN <<"RetrieveDataFailed", "merchant">>
         ELSE IF pc = "find_by_data_hash" THEN <<"DatabaseRetrieveFailed", "hash_table">>
         ELSE IF pc = "find_by_hash_id" THEN <<"DatabaseRetrieveFailed", "locker">>
         ELSE IF pc \in {"insert_hash", "reread_hash"}
              THEN <<"DatabaseInsertFailed", "hash_table">>
         ELSE <<"DatabaseInsertFailed", "locker">>
    ELSE IF op = "delete_card"
    THEN IF pc = "find_merchant" THEN <<"DatabaseRetrieveFailed", "merchant">>
         ELSE <<"DatabaseDeleteFailed", "locker">>
    ELSE <<"DatabaseDeleteFailed", "locker">>

\* The request is between its start and its return.
InFlight(r) == req[r].pc \notin {"idle", "done"}

\* get_conn: the pool gives no connection, the persistence call the request is
\* at fails with PoolClientFailure, and the handler returns it under its context.
PoolClientFailure(r) ==
    /\ InFlight(r)
    /\ LET rq == req[r]
           ctx == ErrorContext(rq.op, rq.pc)
       IN  req' = [req EXCEPT ![r] =
                     Done(rq, ApiError(ctx[1], ctx[2], "PoolClientFailure"))]
    /\ UNCHANGED <<db, ops, issued, deleted>>

\* The caller disconnects: the handler's future is dropped where it awaits.
Abandon(r) ==
    /\ InFlight(r)
    /\ req' = [req EXCEPT ![r] = Idle]
    /\ UNCHANGED <<db, ops, issued, deleted>>

\* Number of requests served in one behaviour with failures.
MaxFaultOps == 3

\* A step of the handler of the request in slot r.
Step(r) ==
    \/ FindOrCreateByMerchantId_Find(r)
    \/ FindOrCreateByMerchantId_Insert(r)
    \/ FindOrCreateByMerchantId_Reread(r)
    \/ AddCard_FindByDataHash(r)
    \/ AddCard_FindByHashId(r)
    \/ InsertHash_Insert(r)
    \/ InsertHash_Reread(r)
    \/ AddCard_InsertOrGet(r)
    \/ DeleteCard_FindMerchant(r)
    \/ DeleteCard_DeleteFromLocker(r)
    \/ RetrieveCard_FindMerchant(r)
    \/ RetrieveCard_FindByLockerId(r)

StartAddCardFault(r) == ops < MaxFaultOps /\ StartAddCard(r)

StartDeleteCardFault(r) == ops < MaxFaultOps /\ StartDeleteCard(r)

StartRetrieveCardFault(r) == ops < MaxFaultOps /\ StartRetrieveCard(r)

NextFault ==
    \E r \in Req :
        \/ StartAddCardFault(r)
        \/ StartDeleteCardFault(r)
        \/ StartRetrieveCardFault(r)
        \/ Step(r)
        \/ Respond(r)
        \/ PoolClientFailure(r)
        \/ Abandon(r)

SpecFault == Init /\ [][NextFault]_vars

\* The service with callers that wait for their response. The runtime polls
\* every handler whose awaited persistence call can complete, so the step of a
\* request that stays possible is eventually taken.
NextLive ==
    \E r \in Req :
        \/ StartAddCardFault(r)
        \/ StartDeleteCardFault(r)
        \/ StartRetrieveCardFault(r)
        \/ Step(r)
        \/ Respond(r)
        \/ PoolClientFailure(r)

SpecLive == Init /\ [][NextLive]_vars /\ \A r \in Req : WF_vars(Step(r))

----------------------------------------------------------------------------

\* The vault record is the one the delete_card or retrieve_card request names:
\* its card_reference, tenant, merchant and customer.
Names(rq, l) ==
    /\ l.locker_id = rq.card_reference
    /\ l.tenant_id = Tenant
    /\ l.merchant_id = rq.merchant_id
    /\ l.customer_id = rq.merchant_customer_id

\* C11: a step of delete_card removes from the locker table only vault records
\* whose card_reference, tenant, merchant and customer are the request's, and
\* adds or changes none; and a retrieve by the owner of a stored reference
\* answers with the payload as long as no delete under the owner's merchant
\* and customer has run on it, whatever deletes others ran on that reference.
C11_DeleteIsScoped ==
    [][\A r \in Req :
         /\ (req[r].op = "delete_card" /\ Stepped(r))
               => /\ locker' \subseteq locker
                  /\ \A l \in locker \ locker' : Names(req[r], l)
         /\ \A e \in issued :
              ( /\ req[r].op = "retrieve_card"
                /\ Returns(r)
                /\ Owns(e, req[r])
                /\ <<e.merchant_id, e.customer_id, e.card_reference>> \notin deleted )
              => req'[r].resp = RetrieveCardResponse(e.data)]_vars

\* A delete of a stored card_reference under another merchant or customer has
\* returned, and after it the owner has retrieved the payload.
C11_Witness ==
    \E r1, r2 \in Req : \E e \in issued :
        /\ IsDone(r1, "delete_card") /\ IsDone(r2, "retrieve_card")
        /\ req[r1].card_reference = e.card_reference
        /\ ~Owns(e, req[r1])
        /\ req[r1].resp = DeleteCardResponse
        /\ req[r1].n < req[r2].n
        /\ Owns(e, req[r2])
        /\ req[r2].resp = RetrieveCardResponse(e.data)

\* C12: in every reachable state, also after stores that failed or were
\* abandoned at any of their steps, every vault record has a merchant record of
\* its (tenant_id, merchant_id) and a dedup entry of its hash_id.
C12_RecordsHavePrerequisites ==
    \A l \in locker :
        /\ MerchantRows(l.merchant_id, l.tenant_id) # {}
        /\ \E h \in hash_table : h.hash_id = l.hash_id

\* No request is in flight, nothing was deleted, a vault record is stored, and
\* a dedup entry is left without any vault record: a store ended after its
\* insert_hash.
C12_Witness ==
    /\ \A r \in Req : req[r].op = "idle"
    /\ deleted = {}
    /\ locker # {}
    /\ \E h \in hash_table : \A l \in locker : l.hash_id # h.hash_id

\* The ApiError variants that name a retrieval.
RetrieveContexts == {"RetrieveDataFailed", "DatabaseRetrieveFailed"}

\* C13: an error retrieve_card returns from a lookup is under a context that
\* names the retrieval and the entity looked up (the merchant when the
\* merchant has no record), and its cause stays the lookup miss.
C13_RetrieveErrorsNamed ==
    \A r \in Req :
        (IsDone(r, "retrieve_card") /\ req[r].resp.status = "Err")
           => /\ req[r].resp.context \in RetrieveContexts
              /\ req[r].resp.entity \in {"merchant", "locker"}
              /\ MerchantRows(req[r].merchant_id, Tenant) = {}
                    => req[r].resp.entity = "merchant"
              /\ req[r].resp.cause = "NotFound"

\* How far a handler is: the number of the persistence call it is at, in the
\* order the handler makes them.
Rank(pc) ==
    CASE pc = "idle" -> 0
      [] pc = "find_merchant" -> 1
      [] pc = "insert_merchant" -> 2
      [] pc = "reread_merchant" -> 3
      [] pc = "find_by_data_hash" -> 4
      [] pc = "find_by_hash_id" -> 5
      [] pc = "insert_hash" -> 5
      [] pc = "reread_hash" -> 6
      [] pc = "insert_or_get" -> 7
      [] pc = "delete_from_locker" -> 4
      [] pc = "find_by_locker_id" -> 4
      [] pc = "done" -> 8

\* C14: under fair scheduling every request in flight eventually returns a
\* response or an error; every step of a request in flight takes it to a later
\* persistence call or to its return (no retry loop, at most 7 calls); the
\* pending call of a request in flight can always complete, whatever the other
\* requests do; and a request that got no pooled connection returns the
\* resource error PoolClientFailure.
C14_EveryRequestReturns ==
    /\ \A r \in Req : InFlight(r) ~> (req[r].pc = "done")
    /\ [][\A r \in Req :
            /\ (InFlight(r) /\ Stepped(r)) => Rank(req'[r].pc) > Rank(req[r].pc)
            /\ PoolClientFailure(r)
                  => /\ req'[r].pc = "done"
                     /\ req'[r].resp.status = "Err"
                     /\ req'[r].resp.cause = "PoolClientFailure"]_vars
    /\ [](\A r \in Req : InFlight(r) => ENABLED Step(r))

\* Two requests were in flight together, and one add_card made all its seven
\* persistence calls and returned while another request got no connection.
C14_Witness ==
    \E r1, r2 \in Req :
        /\ r1 # r2
        /\ IsDone(r1, "add_card")
        /\ req[r1].resp.status = "Ok"
        /\ {"merchant", "hash_table", "locker"} \subseteq req[r1].conflicts
        /\ req[r2].pc = "done"
        /\ req[r2].resp.status = "Err"
        /\ req[r2].resp.cause = "PoolClientFailure"

\* C15: no step changes or removes a merchant record, and only a step of
\* add_card adds one; a retrieve_card or delete_card whose merchant lookup finds
\* no merchant record of (tenant, merchant_id) returns an error in that step
\* and leaves merchant, hash_table and locker as they were.
C15_OnlyAddCardCreatesMerchants ==
    [][/\ merchant \subseteq merchant'
       /\ merchant' # merchant
             => \E r \in Req : req[r].op = "add_card" /\ Stepped(r)
       /\ \A r \in Req :
            /\ (req[r].op \in {"retrieve_card", "delete_card"} /\ Stepped(r))
                  => merchant' = merchant
            /\ ( /\ req[r].op \in {"retrieve_card", "delete_card"}
                 /\ req[r].pc = "find_merchant"
                 /\ MerchantRows(req[r].merchant_id, Tenant) = {}
                 /\ Stepped(r) )
               => /\ req'[r].pc = "done"
                  /\ req'[r].resp.status = "Err"
                  /\ db' = db]_vars

\* A delete_card and a retrieve_card that name a stored card_reference under a
\* merchant without a merchant record have both returned an error, and the
\* vault record is still there.
C15_Witness ==
    \E r1, r2 \in Req : \E e \in issued :
        /\ IsDone(r1, "delete_card") /\ IsDone(r2, "retrieve_card")
        /\ \A r \in {r1, r2} :
             /\ req[r].card_reference = e.card_reference
             /\ MerchantRows(req[r].merchant_id, Tenant) = {}
             /\ req[r].resp.status = "Err"
        /\ \E l \in locker : l.locker_id = e.card_reference
        /\ merchant # {}

\* C16: no step removes or changes a dedup entry; a step of delete_card leaves
\* hash_table unchanged; a step of an add_card whose fingerprint already has an
\* entry adds none; and an add_card that returns a card_reference leaves a vault
\* record under the hash_id of the fingerprint's one entry, having added exactly
\* one vault record when its customer had none of the payload and none otherwise.
C16_DedupEntriesStay ==
    [][/\ hash_table \subseteq hash_table'
       /\ \A r \in Req :
            /\ (req[r].op = "delete_card" /\ Stepped(r)) => hash_table' = hash_table
            /\ ( /\ req[r].op = "add_card"
                 /\ Stepped(r)
                 /\ HashRows(HashData(req[r])) # {} )
               => hash_table' = hash_table
            /\ ( /\ req[r].op = "add_card"
                 /\ Returns(r)
                 /\ req'[r].resp.status = "Ok" )
               => LET rq == req[r]
                      had == RecordsOf(rq.merchant_id, rq.merchant_customer_id, rq.data)
                  IN  /\ Cardinality(HashRows(HashData(rq))) = 1
                      /\ locker \subseteq locker'
                      /\ Cardinality(locker' \ locker) = (IF had = {} THEN 1 ELSE 0)
                      /\ \E l \in locker' : \E h \in HashRows(HashData(rq)) :
                           /\ l.locker_id = req'[r].resp.card_reference
                           /\ l.hash_id = h.hash_id]_vars

\* A payload was stored, its only vault record deleted by its owner, and stored
\* again: one dedup entry, and one vault record under a new card_reference and
\* the old hash_id.
C16_Witness ==
    \E e \in issued : \E l \in locker : \E h \in hash_table :
        /\ <<e.merchant_id, e.customer_id, e.card_reference>> \in deleted
        /\ l \in RecordsOf(e.merchant_id, e.customer_id, e.data)
        /\ l.locker_id # e.card_reference
        /\ l.hash_id = h.hash_id
        /\ hash_table = {h}
        /\ locker = {l}
        /\ \E r \in Req : /\ IsDone(r, "add_card")
                          /\ req[r].resp = StoreCardResponse(l.locker_id)

\* The add_card is in the None arm of find_by_data_hash: it went through
\* insert_hash, which gave it its own hash_id or, on a conflict, the winner's.
InNoneArm(rq) == rq.hash_id = rq.n \/ "hash_table" \in rq.conflicts

\* The specified store from its step (4) on: with the hash_id of the
\* fingerprint's dedup entry, find the customer's record of the group and
\* return it without any insert, or else insert_or_get a new vault record.
SpecifiedStore(rq) ==
    LET group == FindByDataHash(HashData(rq))
        found == FindByHashIdMerchantIdCustomerId(
                     group.hash_id, Tenant, rq.merchant_id,
                     rq.merchant_customer_id, rq.dek)
        output == InsertOrGetFromLocker(LockerNew(rq, Tenant, group.hash_id), rq.dek)
    IN  IF ~group.some
        THEN [resp |-> ApiError("DatabaseInsertFailed", "hash_table", "NotFound"),
              rows |-> locker]
        ELSE IF ~found.ok
        THEN [resp |-> ApiError("DatabaseRetrieveFailed", "locker", found.err),
              rows |-> locker]
        ELSE IF found.some
        THEN [resp |-> StoreCardResponse(found.locker_id), rows |-> locker]
        ELSE IF output.ok
        THEN [resp |-> StoreCardResponse(output.locker_id), rows |-> output.rows]
        ELSE [resp |-> ApiError("DatabaseInsertFailed", "locker", output.err),
              rows |-> locker]

\* C17: the step add_card takes after insert_hash (insert_or_get_from_locker,
\* without find_by_hash_id_merchant_id_customer_id) returns the response and
\* leaves the relations of the specified store, which first looks for the
\* customer's record of the group: the found record's card_reference and no
\* insert when there is one, one new vault record otherwise.
C17_NoneArmAsSpecified ==
    [][\A r \in Req :
         ( /\ req[r].op = "add_card"
           /\ req[r].pc = "insert_or_get"
           /\ InNoneArm(req[r])
           /\ Stepped(r) )
         => /\ req'[r].pc = "done"
            /\ req'[r].resp = SpecifiedStore(req[r]).resp
            /\ locker' = SpecifiedStore(req[r]).rows
            /\ hash_table' = hash_table
            /\ merchant' = merchant]_vars

\* An add_card lost the race for the dedup entry, went from insert_hash to
\* insert_or_get_from_locker, found the customer's record of the group already
\* stored by the winner, and returned the winner's card_reference.
C17_Witness ==
    \E r \in Req :
        /\ IsDone(r, "add_card")
        /\ {"hash_table", "locker"} \subseteq req[r].conflicts
        /\ req[r].resp.status = "Ok"
        /\ req[r].resp.card_reference # req[r].n
        /\ \E l \in locker : l.locker_id = req[r].resp.card_reference

\* C18: in every reachable state the ciphertext of every vault record opens
\* under the DEK that the merchant record of its (tenant_id, merchant_id) holds
\* encrypted under the master key, and every add_card past
\* find_or_create_by_merchant_id holds that DEK, whichever creator won.
C18_RecordsUnderMerchantDek ==
    /\ \A l \in locker :
         \E m \in MerchantRows(l.merchant_id, l.tenant_id) :
            LET dek == GcmDecrypt(MasterKey, m.enc_key)
            IN  dek.ok /\ LockerDecrypt(l, dek.plain).ok
    /\ \A r \in Req :
         (req[r].op = "add_card" /\ req[r].pc \in PastMerchant)
            => LET res == FindByMerchantId(req[r].merchant_id, Tenant, MasterKey)
               IN  res.ok /\ res.enc_key = req[r].dek

\* Two first-time stores of one merchant ran together, one lost the race for
\* the merchant record, and each has stored a vault record of its own: both
\* ciphertexts are under the winner's DEK.
C18_Witness ==
    \E r1, r2 \in Req : \E l1, l2 \in locker :
        /\ r1 # r2
        /\ IsDone(r1, "add_card") /\ IsDone(r2, "add_card")
        /\ req[r1].merchant_id = req[r2].merchant_id
        /\ "merchant" \in req[r1].conflicts
        /\ l1.locker_id = req[r1].n /\ l2.locker_id = req[r2].n
        /\ l1.enc_data.key = <<"dek", req[r2].n>>
        /\ l2.enc_data.key = <<"dek", req[r2].n>>

\* C19: when an add_card returns a card_reference, a vault record of that
\* reference exists in the state it returns in, under the request's tenant,
\* merchant and customer, with the hash_id of the dedup entry of the request's
\* payload and holding that payload; and a retrieve_card by the owner of a
\* stored reference on which no delete_from_locker has run returns the payload.
C19_ReturnedReferenceIsReal ==
    [][\A r \in Req :
         /\ ( /\ req[r].op = "add_card"
              /\ Returns(r)
              /\ req'[r].resp.status = "Ok" )
            => \E l \in locker' : \E h \in HashRows(HashData(req[r])) :
                  /\ l.locker_id = req'[r].resp.card_reference
                  /\ l.tenant_id = Tenant
                  /\ l.merchant_id = req[r].merchant_id
                  /\ l.customer_id = req[r].merchant_customer_id
                  /\ l.hash_id = h.hash_id
                  /\ l.enc_data.plain = req[r].data
         /\ \A e \in issued :
              ( /\ req[r].op = "retrieve_card"
                /\ Returns(r)
                /\ Owns(e, req[r])
                /\ ~DeleteRan(e.card_reference) )
              => req'[r].resp = RetrieveCardResponse(e.data)]_vars

\* Deletes ran, an add_card was answered with the card_reference of a record
\* an earlier store made, and the owner's later retrieve of that reference,
\* which no delete named, returned the payload.
C19_Witness ==
    \E r1, r2 \in Req : \E e \in issued :
        /\ IsDone(r1, "add_card") /\ IsDone(r2, "retrieve_card")
        /\ req[r1].resp = StoreCardResponse(e.card_reference)
        /\ req[r1].n # e.card_reference
        /\ SameStore(e, req[r1])
        /\ req[r1].n < req[r2].n
        /\ Owns(e, req[r2])
        /\ req[r2].resp = RetrieveCardResponse(e.data)
        /\ deleted # {}
        /\ ~DeleteRan(e.card_reference)

====
